---------------------------- MODULE Spec2Model ----------------------------
(***************************************************************************)
(* Rook jumping maze: the jump graph built from a matrix of jump lengths   *)
(* (Graph.__init__) and the seven search strategies of Graph (dfs, bfs,    *)
(* ucs_by_distance, ucs_by_jumps, ucs_by_value, dijkstra, a_star) with the *)
(* shared path reconstruction (_get_path).  Positions are 0-based pairs    *)
(* <<row, col>> as in the source; a matrix is a sequence of rows.          *)
(***************************************************************************)
EXTENDS Integers, Sequences, FiniteSets, TLC

VARIABLES
    matrix,     \* the matrix handed to Graph(...)
    start,      \* the start coordinate handed to Graph(...)
    goal,       \* the goal coordinate handed to Graph(...)
    pc,         \* "input" | "failed" | "built" | "loop" | "done" | "raised"
    graph,      \* the Graph object (nodes in dict order, value, heuristic, is_goal,
                \* edges, root); its err names the exception Graph(...) raised
    alg,        \* the strategy being run, "none" before a call
    frontier,   \* stack (dfs) or queue (bfs): a list of nodes
    pq,         \* pq (dijkstra, a_star, _ucs): the binary heap array of the entries
    visited,    \* the strategy's visited set
    parents,    \* the strategy's parents dict
    scores,     \* distances (dijkstra) / g_scores (a_star)
    result,     \* the value the strategy returned (None or a path), None before
    raised,     \* the exception the strategy raised, "none" when it did not
    pops,       \* history: the nodes the running strategy took from its frontier, in order
    pushed,     \* history: the entries put into pq, in the order of the puts
    addr,       \* id(node) of each Node object of the graph (its memory address)
    run,        \* 1 for the first call on the graph, 2 for a later one
    first,      \* what the first call returned, kept for the repetition
    visualizer, \* the PathfindingVisualizer object: _grids, the two indices, the
                \* animation fields and the enabled flag of its five buttons
    phase,      \* where run() is in its frame: "events" | "draw" | "update",
                \* "none" while no visualizer exists
    drawn       \* history: the argument of the last draw_arrows call, -1 before any

vars == <<matrix, start, goal, pc, graph, alg, frontier, pq, visited,
          parents, scores, result, raised, pops, pushed, addr, run, first,
          visualizer, phase, drawn>>

\* the variables of the window
visVars == <<visualizer, phase, drawn>>

---------------------------------------------------------------------------
(* Bounds of the model *)

\* largest number of cells of a generated matrix
MaxCells == 4

\* largest jump length stored in a generated cell
MaxVal == 3

\* largest jump length stored in a cell of a generated one-row matrix (corridor)
LongVal == 5

\* one-row matrices of WideCells cells holding 0..WideVal, searched by one strategy
WideCells == 5

WideVal == 3

\* largest jump length stored in a cell of a matrix whose search is repeated
RepeatVal == 2

\* the graphs shown in the window: at most MaxGraphs of them, each built from a
\* one-row matrix of at most VisCells cells holding 0..VisVal
MaxGraphs == 3

VisCells == 2

VisVal == 2

\* matrices handed to Graph(...) unchecked: at most BuildRows rows, each of at most
\* BuildCols cells holding 0..BuildVal; coordinates from -1 to BuildRows, BuildCols
BuildRows == 2

BuildCols == 2

BuildVal == 2

---------------------------------------------------------------------------
(* Values *)

\* Python's None (no node, no path): positions are pairs and paths are non-empty
None == <<>>

\* math.inf: larger than every finite distance; inf + x = inf
Inf == 1000000

Strategies == {"dfs", "bfs", "ucs_by_distance", "ucs_by_jumps", "ucs_by_value",
               "dijkstra", "a_star"}

UcsStrategies == {"ucs_by_distance", "ucs_by_jumps", "ucs_by_value"}

Abs(x) == IF x < 0 THEN -x ELSE x

\* Python's // on integers (floor division), divisor # 0
FloorDiv(a, d) == IF d > 0 THEN a \div d ELSE (-a) \div (-d)

Max(S) == CHOOSE x \in S : \A y \in S : y <= x

Min(S) == CHOOSE x \in S : \A y \in S : x <= y

Range(s) == {s[k] : k \in 1..Len(s)}

\* the list s reversed (reversed(node.edges), path[::-1])
Reverse(s) == [k \in 1..Len(s) |-> s[Len(s) + 1 - k]]

---------------------------------------------------------------------------
(* Inputs *)

\* shapes <<rows, cols>> with at most MaxCells cells
Shapes == {sh \in (1..MaxCells) \X (1..MaxCells) : sh[1] * sh[2] <= MaxCells}

\* rectangular matrices of jump lengths 0..MaxVal
RectMatrices ==
    UNION {[1..sh[1] -> [1..sh[2] -> 0..MaxVal]] : sh \in Shapes}

\* one-row matrices with jump lengths 0..LongVal: long jumps next to short ones
Corridors ==
    UNION {[1..1 -> [1..c -> 0..LongVal]] : c \in 1..MaxCells}

\* one-row matrices of WideCells cells: room for a detour before the goal
WideCorridors == [1..1 -> [1..WideCells -> 0..WideVal]]

\* rectangular matrices of jump lengths 0..RepeatVal
SmallMatrices ==
    UNION {[1..sh[1] -> [1..sh[2] -> 0..RepeatVal]] : sh \in Shapes}

\* any list of rows, empty and ragged ones included
AnyMatrices ==
    LET Rows == UNION {[1..c -> 0..BuildVal] : c \in 0..BuildCols}
    IN  UNION {[1..r -> Rows] : r \in 0..BuildRows}

\* any coordinate pair, in or out of the matrix
AnyCoordinates == ((-1)..BuildRows) \X ((-1)..BuildCols)

\* the 3x3 matrix of all 1's (concrete scenario B)
ScenarioB == [i \in 1..3 |-> [j \in 1..3 |-> 1]]

\* the cells of a matrix: (i, j) with 0 <= i < len(matrix), 0 <= j < len(matrix[i])
Cells(m) == UNION {{<<i - 1, j - 1>> : j \in 1..Len(m[i])} : i \in 1..Len(m)}

IsRectangular(m) == \A i, k \in 1..Len(m) : Len(m[i]) = Len(m[k])

NonEmpty(m) == Len(m) > 0 /\ \A i \in 1..Len(m) : Len(m[i]) > 0

WellFormed(m, s, g) ==
    NonEmpty(m) /\ IsRectangular(m) /\ s \in Cells(m) /\ g \in Cells(m)

---------------------------------------------------------------------------
(* Graph.__init__ *)

\* matrix[i][j] for a 0-based position
At(m, pos) == m[pos[1] + 1][pos[2] + 1]

\* max_jump = max([max(row) for row in matrix])
MaxJump(m) == Max({At(m, p) : p \in Cells(m)})

\* the estimate multiplied by max_jump - 1 where Node.__init__ divides by it
HeuristicScaledUp(pos, g, max_jump) ==
    (Abs(pos[1] - g[1]) + Abs(pos[2] - g[2])) * (max_jump - 1)

\* Node.__init__: heuristic = (|di| + |dj|) // (max_jump - 1)
Heuristic(pos, g, max_jump) ==
    FloorDiv(Abs(pos[1] - g[1]) + Abs(pos[2] - g[2]), max_jump - 1)

\* the graph under construction: nodes in dict insertion order, err the exception raised
EmptyGraph ==
    [nodes |-> <<>>, value |-> <<>>, heuristic |-> <<>>, is_goal |-> <<>>,
     edges |-> <<>>, root |-> None, err |-> "none"]

\* self.nodes[pos] if pos in self.nodes else Node(pos, matrix[i][j], goal, max_jump)
EnsureNode(b, m, g, max_jump, pos) ==
    IF pos \in Range(b.nodes) THEN b
    ELSE IF pos \notin Cells(m) THEN [b EXCEPT !.err = "IndexError"]
    ELSE IF max_jump - 1 = 0 THEN [b EXCEPT !.err = "ZeroDivisionError"]
    ELSE [b EXCEPT !.nodes = Append(@, pos),
                   !.value = (pos :> At(m, pos)) @@ @,
                   !.heuristic = (pos :> Heuristic(pos, g, max_jump)) @@ @,
                   !.is_goal = (pos :> (pos = g)) @@ @,
                   !.edges = (pos :> <<>>) @@ @]

\* the offsets with the columns first: left, right, up, down
OffsetsColumnsFirst(length) == << <<0, -length>>, <<0, length>>, <<-length, 0>>, <<length, 0>> >>

\* ((-length, 0), (length, 0), (0, -length), (0, length)): up, down, left, right
Offsets(length) == << <<-length, 0>>, <<length, 0>>, <<0, -length>>, <<0, length>> >>

\* 0 <= ni < len(matrix) and 0 <= nj < len(row), row the row of the source cell
InBounds(m, pos, n_pos) ==
    /\ 0 <= n_pos[1] /\ n_pos[1] < Len(m)
    /\ 0 <= n_pos[2] /\ n_pos[2] < Len(m[pos[1] + 1])

\* the inner for loop of Graph.__init__ from its k-th offset on
RECURSIVE AddEdges(_, _, _, _, _, _)
AddEdges(b, m, g, max_jump, pos, k) ==
    IF k > 4 \/ b.err # "none" THEN b
    ELSE LET length == At(m, pos)
             n_pos == <<pos[1] + Offsets(length)[k][1], pos[2] + Offsets(length)[k][2]>>
         IN  IF InBounds(m, pos, n_pos)
             THEN LET b1 == EnsureNode(b, m, g, max_jump, n_pos)
                  IN  IF b1.err # "none" THEN b1
                      ELSE AddEdges([b1 EXCEPT !.edges[pos] =
                                        Append(@, [dest |-> n_pos, length |-> length])],
                                    m, g, max_jump, pos, k + 1)
             ELSE AddEdges(b, m, g, max_jump, pos, k + 1)

\* one iteration of the loop over the cells: the node, then its edges
VisitCell(b, m, g, max_jump, pos) ==
    LET b1 == EnsureNode(b, m, g, max_jump, pos)
    IN  IF b1.err # "none" \/ At(m, pos) = 0 THEN b1
        ELSE AddEdges(b1, m, g, max_jump, pos, 1)

\* the cells in the order of the two enumerate loops (row-major)
RECURSIVE CellOrder(_, _)
CellOrder(m, i) ==
    IF i > Len(m) THEN <<>>
    ELSE [j \in 1..Len(m[i]) |-> <<i - 1, j - 1>>] \o CellOrder(m, i + 1)

RECURSIVE VisitCells(_, _, _, _, _, _)
VisitCells(b, m, g, max_jump, order, k) ==
    IF k > Len(order) \/ b.err # "none" THEN b
    ELSE VisitCells(VisitCell(b, m, g, max_jump, order[k]), m, g, max_jump, order, k + 1)

\* Graph(matrix, start, goal): the built graph, or err naming the exception raised
BuildGraph(m, s, g) ==
    IF ~NonEmpty(m) THEN [EmptyGraph EXCEPT !.err = "ValueError"]
    ELSE LET b == VisitCells(EmptyGraph, m, g, MaxJump(m), CellOrder(m, 1), 1)
         IN  IF b.err # "none" THEN b
             ELSE IF s \notin Range(b.nodes) THEN [b EXCEPT !.err = "KeyError"]
             ELSE [b EXCEPT !.root = s]

---------------------------------------------------------------------------
(* queue.PriorityQueue: a binary heap ordered by Python's tuple comparison *)

\* Node.__lt__ ordering nodes by id()
NodeLtByAddress(a, b) == addr[a] < addr[b]

\* Node.__lt__ (the default __eq__ and __hash__ of Node are by identity, addr)
NodeLt(a, b) == TRUE

\* list < list: the first differing pair decides, else the shorter list is less
ListLt(p, q) ==
    LET n == IF Len(p) < Len(q) THEN Len(p) ELSE Len(q)
        D == {k \in 1..n : p[k] # q[k]}
    IN  IF D # {} THEN NodeLt(p[Min(D)], q[Min(D)]) ELSE Len(p) < Len(q)

\* tuple < tuple for queue entries (key, node) and (key, node, path)
EntryLt(a, b) ==
    IF a.key # b.key THEN a.key < b.key
    ELSE IF a.node # b.node THEN NodeLt(a.node, b.node)
    ELSE ListLt(a.path, b.path)

\* heapq._siftdown(heap, startpos, pos) with newitem taken out of heap[pos]
RECURSIVE SiftDown(_, _, _, _)
SiftDown(heap, startpos, pos, newitem) ==
    IF pos > startpos /\ EntryLt(newitem, heap[((pos - 1) \div 2) + 1])
    THEN SiftDown([heap EXCEPT ![pos + 1] = heap[((pos - 1) \div 2) + 1]],
                  startpos, (pos - 1) \div 2, newitem)
    ELSE [heap EXCEPT ![pos + 1] = newitem]

\* heapq._siftup(heap, pos): move the smaller child up to a leaf, then sift down
RECURSIVE SiftUp(_, _, _, _)
SiftUp(heap, startpos, pos, newitem) ==
    LET endpos == Len(heap)
        childpos == 2 * pos + 1
        rightpos == childpos + 1
        c == IF rightpos < endpos /\ ~EntryLt(heap[childpos + 1], heap[rightpos + 1])
             THEN rightpos ELSE childpos
    IN  IF childpos < endpos
        THEN SiftUp([heap EXCEPT ![pos + 1] = heap[c + 1]], startpos, c, newitem)
        ELSE SiftDown([heap EXCEPT ![pos + 1] = newitem], startpos, pos, newitem)

\* pq.put(item): heapq.heappush
HeapPush(heap, item) == SiftDown(Append(heap, item), 0, Len(heap), item)

\* the heap left by pq.get(): heapq.heappop (the entry returned is heap[1])
HeapPopRest(heap) ==
    LET lastelt == heap[Len(heap)]
        rest == SubSeq(heap, 1, Len(heap) - 1)
    IN  IF rest = <<>> THEN rest ELSE SiftUp(rest, 0, 0, lastelt)

Entry(key, node, path) == [key |-> key, node |-> node, path |-> path]

---------------------------------------------------------------------------
(* Graph._get_path *)

\* the while loop: nodes from current back to the root, in walk order;
\* exc is the KeyError of parents[current] for a node that has no entry
RECURSIVE WalkParents(_, _)
WalkParents(par, current) ==
    IF current = None THEN [exc |-> "none", nodes |-> <<>>]
    ELSE IF current \notin DOMAIN par THEN [exc |-> "KeyError", nodes |-> <<current>>]
    ELSE LET w == WalkParents(par, par[current])
         IN  [exc |-> w.exc, nodes |-> <<current>> \o w.nodes]

\* _get_path without the test of parents[goal] (as the standalone bfs and dfs)
GetPathAnyGoal(par, g) ==
    IF g = None THEN [exc |-> "none", path |-> None]
    ELSE LET w == WalkParents(par, g)
         IN  IF w.exc # "none" THEN [exc |-> w.exc, path |-> None]
             ELSE [exc |-> "none", path |-> Reverse(w.nodes)]

\* _get_path returning path instead of path[::-1]
GetPathNoReverse(par, g) ==
    IF g = None THEN [exc |-> "none", path |-> None]
    ELSE IF g \notin DOMAIN par THEN [exc |-> "KeyError", path |-> None]
    ELSE IF par[g] = None THEN [exc |-> "none", path |-> None]
    ELSE LET w == WalkParents(par, g)
         IN  IF w.exc # "none" THEN [exc |-> w.exc, path |-> None]
             ELSE [exc |-> "none", path |-> w.nodes]

\* _get_path(parents, goal): the path returned, or the exception raised
GetPath(par, g) ==
    IF g = None THEN [exc |-> "none", path |-> None]
    ELSE IF g \notin DOMAIN par THEN [exc |-> "KeyError", path |-> None]
    ELSE IF par[g] = None THEN [exc |-> "none", path |-> None]
    ELSE LET w == WalkParents(par, g)
         IN  IF w.exc # "none" THEN [exc |-> w.exc, path |-> None]
             ELSE [exc |-> "none", path |-> Reverse(w.nodes)]

---------------------------------------------------------------------------
(* The strategies: their locals are a record loc, pc says whether the loop *)
(* still runs ("loop"), the strategy returned ("done") or raised           *)

\* inf + x = inf
Plus(d, x) == IF d = Inf THEN Inf ELSE d + x

\* ucs_by_value counting 1 per edge (lambda _: 1) instead of edge.dest.value
IncrementValueAsJump(a, g, edge) ==
    IF a = "ucs_by_distance" THEN edge.length ELSE 1

\* increment(edge) of the three _ucs instances
Increment(a, g, edge) ==
    IF a = "ucs_by_distance" THEN edge.length
    ELSE IF a = "ucs_by_jumps" THEN 1
    ELSE g.value[edge.dest]

\* dijkstra: the queue after the initial puts, (0, root) then (inf, node) in dict order
RECURSIVE DijkstraInitQueue(_, _, _)
DijkstraInitQueue(g, heap, k) ==
    IF k > Len(g.nodes) THEN heap
    ELSE IF g.nodes[k] # g.root
         THEN DijkstraInitQueue(g, HeapPush(heap, Entry(Inf, g.nodes[k], <<>>)), k + 1)
         ELSE DijkstraInitQueue(g, heap, k + 1)

NoLocals ==
    [frontier |-> <<>>, visited |-> {}, parents |-> <<>>, scores |-> <<>>,
     pc |-> "loop", result |-> None, exc |-> "none"]

\* the locals of a strategy before its loop
InitLocals(a, g) ==
    IF a = "dfs" THEN
        [NoLocals EXCEPT !.frontier = <<g.root>>, !.parents = (g.root :> None)]
    ELSE IF a = "bfs" THEN
        [NoLocals EXCEPT !.frontier = <<g.root>>, !.visited = {g.root},
                         !.parents = (g.root :> None)]
    ELSE IF a = "dijkstra" THEN
        [NoLocals EXCEPT
            !.frontier = DijkstraInitQueue(g, <<Entry(0, g.root, <<>>)>>, 1),
            !.parents = [n \in Range(g.nodes) |-> None],
            !.scores = [n \in Range(g.nodes) |-> IF n = g.root THEN 0 ELSE Inf]]
    ELSE IF a = "a_star" THEN
        [NoLocals EXCEPT !.frontier = <<Entry(0, g.root, <<>>)>>,
                         !.parents = (g.root :> None), !.scores = (g.root :> 0)]
    ELSE
        [NoLocals EXCEPT !.frontier = <<Entry(0, g.root, <<g.root>>)>>]

\* return self._get_path(parents, goal)
ReturnPath(loc, g) ==
    LET r == GetPath(loc.parents, g)
    IN  IF r.exc # "none" THEN [loc EXCEPT !.pc = "raised", !.exc = r.exc]
        ELSE [loc EXCEPT !.pc = "done", !.result = r.path]

\* dfs: for edge in reversed(node.edges), from the k-th edge of the reversed list on
RECURSIVE DfsExpand(_, _, _, _)
DfsExpand(loc, node, redges, k) ==
    IF k > Len(redges) THEN loc
    ELSE LET neighbour == redges[k].dest
         IN  IF neighbour \notin loc.visited
             THEN DfsExpand([loc EXCEPT
                                !.frontier = Append(@, neighbour),
                                !.parents = IF neighbour \notin DOMAIN @
                                            THEN (neighbour :> node) @@ @ ELSE @],
                            node, redges, k + 1)
             ELSE DfsExpand(loc, node, redges, k + 1)

\* dfs pushing the neighbours in edge order (for edge in node.edges)
DfsIterForward(g, loc) ==
    LET node == loc.frontier[Len(loc.frontier)]
        popped == [loc EXCEPT !.frontier = SubSeq(@, 1, Len(@) - 1)]
    IN  IF g.is_goal[node] THEN ReturnPath(popped, node)
        ELSE IF node \notin loc.visited
        THEN DfsExpand([popped EXCEPT !.visited = @ \cup {node}],
                       node, g.edges[node], 1)
        ELSE popped

\* dfs: one iteration of the while loop
DfsIter(g, loc) ==
    LET node == loc.frontier[Len(loc.frontier)]
        popped == [loc EXCEPT !.frontier = SubSeq(@, 1, Len(@) - 1)]
    IN  IF g.is_goal[node] THEN ReturnPath(popped, node)
        ELSE IF node \notin loc.visited
        THEN DfsExpand([popped EXCEPT !.visited = @ \cup {node}],
                       node, Reverse(g.edges[node]), 1)
        ELSE popped

\* bfs marking a node visited when it is expanded instead of when it is discovered
RECURSIVE BfsExpandLate(_, _, _, _)
BfsExpandLate(loc, node, edges, k) ==
    IF k > Len(edges) THEN [loc EXCEPT !.visited = @ \cup {node}]
    ELSE LET neighbour == edges[k].dest
         IN  IF neighbour \notin loc.visited \cup {node}
             THEN BfsExpandLate([loc EXCEPT
                                    !.parents = (neighbour :> node) @@ @,
                                    !.frontier = Append(@, neighbour)],
                                node, edges, k + 1)
             ELSE BfsExpandLate(loc, node, edges, k + 1)

\* bfs assigning parents[neighbour] = node for every edge, discovered or not
RECURSIVE BfsExpandReparent(_, _, _, _)
BfsExpandReparent(loc, node, edges, k) ==
    IF k > Len(edges) THEN loc
    ELSE LET neighbour == edges[k].dest
         IN  IF neighbour \notin loc.visited
             THEN BfsExpandReparent([loc EXCEPT
                                !.visited = @ \cup {neighbour},
                                !.parents = (neighbour :> node) @@ @,
                                !.frontier = Append(@, neighbour)],
                            node, edges, k + 1)
             ELSE BfsExpandReparent([loc EXCEPT !.parents = (neighbour :> node) @@ @],
                                    node, edges, k + 1)

\* bfs: for edge in node.edges
RECURSIVE BfsExpand(_, _, _, _)
BfsExpand(loc, node, edges, k) ==
    IF k > Len(edges) THEN loc
    ELSE LET neighbour == edges[k].dest
         IN  IF neighbour \notin loc.visited
             THEN BfsExpand([loc EXCEPT
                                !.visited = @ \cup {neighbour},
                                !.parents = (neighbour :> node) @@ @,
                                !.frontier = Append(@, neighbour)],
                            node, edges, k + 1)
             ELSE BfsExpand(loc, node, edges, k + 1)

\* bfs: one iteration of the while loop
BfsIter(g, loc) ==
    LET node == Head(loc.frontier)
        popped == [loc EXCEPT !.frontier = Tail(@)]
    IN  IF g.is_goal[node] THEN ReturnPath(popped, node)
        ELSE BfsExpand(popped, node, g.edges[node], 1)

\* dijkstra relaxing a neighbour only while its distance is still inf
RECURSIVE DijkstraExpandOnce(_, _, _, _)
DijkstraExpandOnce(loc, node, edges, k) ==
    IF k > Len(edges) THEN loc
    ELSE LET neighbour == edges[k].dest
             new_distance == Plus(loc.scores[node], edges[k].length)
         IN  IF node \notin DOMAIN loc.scores \/ neighbour \notin DOMAIN loc.scores
             THEN [loc EXCEPT !.pc = "raised", !.exc = "KeyError"]
             ELSE IF new_distance < loc.scores[neighbour] /\ loc.scores[neighbour] = Inf
             THEN DijkstraExpandOnce([loc EXCEPT
                                         !.parents = (neighbour :> node) @@ @,
                                         !.scores = (neighbour :> new_distance) @@ @,
                                         !.frontier = HeapPush(@, Entry(new_distance, neighbour, <<>>))],
                                     node, edges, k + 1)
             ELSE DijkstraExpandOnce(loc, node, edges, k + 1)

\* dijkstra: the relaxation loop (distances[...] of a missing key raises KeyError)
RECURSIVE DijkstraExpand(_, _, _, _)
DijkstraExpand(loc, node, edges, k) ==
    IF k > Len(edges) THEN loc
    ELSE LET neighbour == edges[k].dest
             new_distance == Plus(loc.scores[node], edges[k].length)
         IN  IF node \notin DOMAIN loc.scores \/ neighbour \notin DOMAIN loc.scores
             THEN [loc EXCEPT !.pc = "raised", !.exc = "KeyError"]
             ELSE IF new_distance < loc.scores[neighbour]
             THEN DijkstraExpand([loc EXCEPT
                                     !.parents = (neighbour :> node) @@ @,
                                     !.scores = (neighbour :> new_distance) @@ @,
                                     !.frontier = HeapPush(@, Entry(new_distance, neighbour, <<>>))],
                                 node, edges, k + 1)
             ELSE DijkstraExpand(loc, node, edges, k + 1)

\* dijkstra storing the key of the popped entry as the node's distance
\* (distances[node] = distance) before it relaxes the node's edges
DijkstraIterRecordsKey(g, loc) ==
    LET node == loc.frontier[1].node
    IN  CHOOSE after \in
            {IF g.is_goal[node] THEN ReturnPath(popped, node)
             ELSE DijkstraExpand(popped, node, g.edges[node], 1) :
                popped \in {[loc EXCEPT !.frontier = HeapPopRest(@),
                                        !.scores[node] = loc.frontier[1].key]}} : TRUE

\* dijkstra: one iteration of the while loop (popped, the locals after pq.get(),
\* is bound as the one element of a set so that the heap is rebuilt once)
DijkstraIter(g, loc) ==
    LET node == loc.frontier[1].node
    IN  CHOOSE after \in
            {IF g.is_goal[node] THEN ReturnPath(popped, node)
             ELSE DijkstraExpand(popped, node, g.edges[node], 1) :
                popped \in {[loc EXCEPT !.frontier = HeapPopRest(@)]}} : TRUE

\* a_star recording a neighbour only at its first discovery, never improving it
RECURSIVE AStarExpandOnce(_, _, _, _, _)
AStarExpandOnce(loc, g, node, edges, k) ==
    IF k > Len(edges) THEN loc
    ELSE LET neighbour == edges[k].dest
             tentative_g_score == loc.scores[node] + edges[k].length
         IN  IF node \notin DOMAIN loc.scores
             THEN [loc EXCEPT !.pc = "raised", !.exc = "KeyError"]
             ELSE IF neighbour \notin DOMAIN loc.scores
             THEN AStarExpandOnce([loc EXCEPT
                                      !.parents = (neighbour :> node) @@ @,
                                      !.scores = (neighbour :> tentative_g_score) @@ @,
                                      !.frontier = HeapPush(@, Entry(tentative_g_score
                                                                       + g.heuristic[neighbour],
                                                                     neighbour, <<>>))],
                                  g, node, edges, k + 1)
             ELSE AStarExpandOnce(loc, g, node, edges, k + 1)

\* a_star testing only tentative_g_score < g_scores[neighbour]: a neighbour seen
\* for the first time has no g_score and the lookup raises KeyError
RECURSIVE AStarExpandNoDefault(_, _, _, _, _)
AStarExpandNoDefault(loc, g, node, edges, k) ==
    IF k > Len(edges) THEN loc
    ELSE LET neighbour == edges[k].dest
             tentative_g_score == loc.scores[node] + edges[k].length
         IN  IF node \notin DOMAIN loc.scores \/ neighbour \notin DOMAIN loc.scores
             THEN [loc EXCEPT !.pc = "raised", !.exc = "KeyError"]
             ELSE IF tentative_g_score < loc.scores[neighbour]
             THEN AStarExpandNoDefault([loc EXCEPT
                                  !.parents = (neighbour :> node) @@ @,
                                  !.scores = (neighbour :> tentative_g_score) @@ @,
                                  !.frontier = HeapPush(@, Entry(tentative_g_score
                                                                   + g.heuristic[neighbour],
                                                                 neighbour, <<>>))],
                              g, node, edges, k + 1)
             ELSE AStarExpandNoDefault(loc, g, node, edges, k + 1)

\* a_star: the relaxation loop (g_scores[node] of a missing key raises KeyError)
RECURSIVE AStarExpand(_, _, _, _, _)
AStarExpand(loc, g, node, edges, k) ==
    IF k > Len(edges) THEN loc
    ELSE LET neighbour == edges[k].dest
             tentative_g_score == loc.scores[node] + edges[k].length
         IN  IF node \notin DOMAIN loc.scores
             THEN [loc EXCEPT !.pc = "raised", !.exc = "KeyError"]
             ELSE IF neighbour \notin DOMAIN loc.scores
                     \/ tentative_g_score < loc.scores[neighbour]
             THEN AStarExpand([loc EXCEPT
                                  !.parents = (neighbour :> node) @@ @,
                                  !.scores = (neighbour :> tentative_g_score) @@ @,
                                  !.frontier = HeapPush(@, Entry(tentative_g_score
                                                                   + g.heuristic[neighbour],
                                                                 neighbour, <<>>))],
                              g, node, edges, k + 1)
             ELSE AStarExpand(loc, g, node, edges, k + 1)

\* a_star: one iteration of the while loop
AStarIter(g, loc) ==
    LET node == loc.frontier[1].node
        popped == [loc EXCEPT !.frontier = HeapPopRest(@)]
    IN  IF node \in loc.visited THEN popped
        ELSE IF g.is_goal[node] THEN ReturnPath(popped, node)
        ELSE AStarExpand([popped EXCEPT !.visited = @ \cup {node}],
                         g, node, g.edges[node], 1)

\* _ucs: the loop over the edges of the popped entry e
RECURSIVE UcsExpand(_, _, _, _, _, _)
UcsExpand(loc, a, g, e, edges, k) ==
    IF k > Len(edges) THEN loc
    ELSE LET neighbour == edges[k].dest
         IN  IF neighbour \notin loc.visited
             THEN UcsExpand([loc EXCEPT
                                !.frontier = HeapPush(@, Entry(e.key + Increment(a, g, edges[k]),
                                                               neighbour, Append(e.path, neighbour)))],
                            a, g, e, edges, k + 1)
             ELSE UcsExpand(loc, a, g, e, edges, k + 1)

\* _ucs: one iteration of the while loop
UcsIter(a, g, loc) ==
    LET e == loc.frontier[1]
        popped == [loc EXCEPT !.frontier = HeapPopRest(@), !.visited = @ \cup {e.node}]
    IN  IF g.is_goal[e.node] THEN [popped EXCEPT !.pc = "done", !.result = e.path]
        ELSE UcsExpand(popped, a, g, e, g.edges[e.node], 1)

\* the loop going round on an empty stack or queue instead of leaving (while True)
ExhaustSpins(a, loc) == loc

\* the while condition fails (empty stack or queue): goal / final_path is still None
Exhaust(a, loc) ==
    IF a \in UcsStrategies THEN [loc EXCEPT !.pc = "done", !.result = None]
    ELSE ReturnPath(loc, None)

\* one evaluation of the while condition and, when it holds, of the loop body
Iterate(a, g, loc) ==
    IF loc.frontier = <<>> THEN Exhaust(a, loc)
    ELSE IF a = "dfs" THEN DfsIter(g, loc)
    ELSE IF a = "bfs" THEN BfsIter(g, loc)
    ELSE IF a = "dijkstra" THEN DijkstraIter(g, loc)
    ELSE IF a = "a_star" THEN AStarIter(g, loc)
    ELSE UcsIter(a, g, loc)

\* the whole call of strategy a on graph g: its locals when it returns or raises
RECURSIVE RunFrom(_, _, _)
RunFrom(a, g, loc) ==
    IF loc.pc # "loop" THEN loc ELSE RunFrom(a, g, Iterate(a, g, loc))

RunStrategy(a, g) == RunFrom(a, g, InitLocals(a, g))

---------------------------------------------------------------------------
(* Actions *)

\* the strategies whose frontier is a list of nodes (stack, queue), not a heap
ListStrategies == {"dfs", "bfs"}

\* the frontier of the running strategy: its stack, queue or pq
Frontier == IF alg \in ListStrategies THEN frontier ELSE pq

Locals == [frontier |-> Frontier, visited |-> visited, parents |-> parents,
           scores |-> scores, pc |-> pc, result |-> result, exc |-> raised]

SetLocals(a, loc) ==
    /\ frontier' = IF a \in ListStrategies THEN loc.frontier ELSE <<>>
    /\ pq' = IF a \in ListStrategies THEN <<>> ELSE loc.frontier
    /\ visited' = loc.visited
    /\ parents' = loc.parents
    /\ scores' = loc.scores
    /\ pc' = loc.pc
    /\ result' = loc.result
    /\ raised' = loc.exc

\* the addresses the Node objects of a graph may get: any injective assignment
Addresses(nodes) ==
    {f \in [Range(nodes) -> 1..Len(nodes)] :
        \A u, v \in Range(nodes) : u # v => f[u] # f[v]}

\* addresses in the order of creation
CreationOrder(nodes) == [n \in Range(nodes) |-> CHOOSE k \in 1..Len(nodes) : nodes[k] = n]

\* no window yet: main.py constructs the PathfindingVisualizer after the searches
NoVisualizer ==
    /\ visualizer = None
    /\ phase = "none"
    /\ drawn = -1

\* no graph built and no strategy called
NoSearch ==
    /\ pc = "input"
    /\ graph = EmptyGraph
    /\ alg = "none"
    /\ frontier = <<>>
    /\ pq = <<>>
    /\ visited = {}
    /\ parents = <<>>
    /\ scores = <<>>
    /\ result = None
    /\ raised = "none"
    /\ pops = <<>>
    /\ pushed = <<>>
    /\ addr = <<>>
    /\ run = 1
    /\ first = None

InitRest == NoSearch /\ NoVisualizer

\* main.py's inputs: a rectangular matrix with in-bounds start and goal
Init ==
    /\ matrix \in RectMatrices \cup {ScenarioB}
    /\ start \in Cells(matrix)
    /\ goal \in Cells(matrix)
    /\ InitRest

\* the entries the set-up of a strategy puts into pq, in the order of the puts
InitPuts(a, g) ==
    IF a \in ListStrategies THEN <<>>
    ELSE IF a = "dijkstra"
    THEN <<Entry(0, g.root, <<>>)>>
         \o [k \in 1..(Len(g.nodes) - 1) |->
                Entry(Inf, SelectSeq(g.nodes, LAMBDA n : n # g.root)[k], <<>>)]
    ELSE InitLocals(a, g).frontier

\* the entries one iteration puts into pq, in the order of the puts: those of the
\* heap after the iteration (after) that pq.get() did not leave there, in the
\* order of the edges of the popped node (one put per edge at most)
RECURSIVE PutsFrom(_, _, _, _)
PutsFrom(edges, rest, after, k) ==
    IF k > Len(edges) THEN <<>>
    ELSE SelectSeq(after, LAMBDA e : e.node = edges[k].dest /\ e \notin Range(rest))
         \o PutsFrom(edges, rest, after, k + 1)

Puts(a, g, loc, after) ==
    IF a \in ListStrategies \/ loc.frontier = <<>> THEN <<>>
    ELSE PutsFrom(g.edges[loc.frontier[1].node], HeapPopRest(loc.frontier),
                  after.frontier, 1)

\* graph = Graph(matrix, start, goal)
Build ==
    /\ pc = "input"
    /\ graph' = BuildGraph(matrix, start, goal)
    /\ pc' = IF graph'.err = "none" THEN "built" ELSE "failed"
    /\ addr' = CreationOrder(graph'.nodes)
    /\ UNCHANGED visVars
    /\ UNCHANGED <<matrix, start, goal, alg, frontier, pq, visited, parents, scores,
                   result, raised, pops, pushed, run, first>>

\* a strategy is called on the built graph: its locals are set up
Call(a) ==
    /\ pc = "built"
    /\ alg' = a
    /\ SetLocals(a, InitLocals(a, graph))
    /\ pops' = <<>>
    /\ pushed' = InitPuts(a, graph)
    /\ UNCHANGED visVars
    /\ UNCHANGED <<matrix, start, goal, graph, addr, run, first>>

\* dfs reversing node.edges in place (node.edges.reverse()) before it walks them
GraphAfterReversing(a, g, loc) ==
    IF a = "dfs" /\ loc.frontier # <<>>
    THEN LET node == loc.frontier[Len(loc.frontier)]
         IN  IF ~g.is_goal[node] /\ node \notin loc.visited
             THEN [g EXCEPT !.edges[node] = Reverse(@)]
             ELSE g
    ELSE g

\* the Graph after one iteration of a strategy's loop: the loop bodies read
\* is_goal, edges, dest, length, value and heuristic and assign to none of them,
\* nor to self.nodes, self.start, self._goal or self._root
GraphAfter(a, g, loc) == g

\* the node the next stack.pop(), queue.get() or pq.get() returns
NextNode ==
    IF alg = "dfs" THEN frontier[Len(frontier)]
    ELSE IF alg = "bfs" THEN Head(frontier)
    ELSE pq[1].node

\* one iteration of the loop of the running strategy
Step(a) ==
    /\ pc = "loop" /\ alg = a /\ Frontier # <<>>
    /\ \E loc \in {Iterate(a, graph, Locals)} :
          /\ SetLocals(a, loc)
          /\ pushed' = pushed \o Puts(a, graph, Locals, loc)
    /\ graph' = GraphAfter(a, graph, Locals)
    /\ pops' = Append(pops, NextNode)
    /\ UNCHANGED visVars
    /\ UNCHANGED <<matrix, start, goal, alg, addr, run, first>>

DfsStep == Step("dfs")

BfsStep == Step("bfs")

DijkstraStep == Step("dijkstra")

AStarStep == Step("a_star")

UcsStep == \E a \in UcsStrategies : Step(a)

\* the while condition fails: the stack or queue is empty and goal was never set
Exhausted ==
    /\ pc = "loop" /\ Frontier = <<>>
    /\ \E loc \in {Iterate(alg, graph, Locals)} : SetLocals(alg, loc)
    /\ UNCHANGED visVars
    /\ UNCHANGED <<matrix, start, goal, graph, alg, pops, pushed, addr, run, first>>

Next ==
    \/ Build
    \/ \E a \in Strategies : Call(a)
    \/ DfsStep
    \/ BfsStep
    \/ DijkstraStep
    \/ AStarStep
    \/ UcsStep
    \/ Exhausted

Spec == Init /\ [][Next]_vars

\* main.py's inputs with jump lengths 0..RepeatVal
InitRepeat ==
    /\ matrix \in SmallMatrices
    /\ start \in Cells(matrix)
    /\ goal \in Cells(matrix)
    /\ InitRest

\* the while loop of the strategy that is running: one evaluation of its condition
LoopStep ==
    \/ DfsStep
    \/ BfsStep
    \/ DijkstraStep
    \/ AStarStep
    \/ UcsStep
    \/ Exhausted

\* the program is sequential and nothing preempts it: a strategy that was called
\* executes its loop until it returns or raises
SpecFair == Init /\ [][Next]_vars /\ WF_vars(LoopStep)

\* the same program on one-row matrices with longer jumps
InitLong ==
    /\ matrix \in Corridors
    /\ start \in Cells(matrix)
    /\ goal \in Cells(matrix)
    /\ InitRest

SpecLong == InitLong /\ [][Next]_vars

InitWide ==
    /\ matrix \in WideCorridors
    /\ start \in Cells(matrix)
    /\ goal \in Cells(matrix)
    /\ InitRest

\* dijkstra alone, on the wider one-row matrices (its queue holds an entry for
\* every node, the goal included, so its loop always ends by popping the goal)
NextDijkstra ==
    \/ Build
    \/ Call("dijkstra")
    \/ DijkstraStep

SpecDijkstra == InitWide /\ [][NextDijkstra]_vars

\* after a strategy returned, another one is called on the same graph
\* (print_results calls the seven in turn, the visualizer calls them again)
CallAgain(a) ==
    /\ pc = "done"
    /\ alg' = a
    /\ run' = 2
    /\ SetLocals(a, InitLocals(a, graph))
    /\ pops' = <<>>
    /\ pushed' = InitPuts(a, graph)
    /\ UNCHANGED visVars
    /\ UNCHANGED <<matrix, start, goal, graph, addr, first>>

NextSeries ==
    \/ Next
    \/ \E a \in Strategies : CallAgain(a)

SpecSeries == Init /\ [][NextSeries]_vars

\* Graph(...) called with any matrix and any coordinates
InitAny ==
    /\ matrix \in AnyMatrices
    /\ start \in AnyCoordinates
    /\ goal \in AnyCoordinates
    /\ InitRest

SpecBuild == InitAny /\ [][Build]_vars

\* the strategy that returned is called again, on the same graph or on a second
\* graph built from the same matrix, start and goal (its nodes at other addresses)
Repeat ==
    /\ pc = "done" /\ run = 1
    /\ run' = 2
    /\ first' = result
    /\ addr' \in Addresses(graph.nodes)
    /\ SetLocals(alg, InitLocals(alg, graph))
    /\ pops' = <<>>
    /\ pushed' = InitPuts(alg, graph)
    /\ UNCHANGED visVars
    /\ UNCHANGED <<matrix, start, goal, graph, alg>>

NextRepeat ==
    \/ Next
    \/ Repeat

SpecRepeat == InitRepeat /\ [][NextRepeat]_vars

---------------------------------------------------------------------------
(* visualizer.py: PathfindingVisualizer, its buttons and its animation.  The    *)
(* text popup of an Algorithm (_draw_popup) is drawing state no handler reads   *)
(* and is left out; time() is an input of _update_animation.                    *)

\* Grid.__init__: the algorithms list, in the order it is written
AlgorithmOrder ==
    <<"dfs", "ucs_by_distance", "ucs_by_jumps", "ucs_by_value", "bfs", "dijkstra", "a_star">>

Buttons ==
    {"run_algorithm", "previous_algorithm", "next_algorithm", "previous_graph", "next_graph"}

\* the graphs main.py appends to graphs: Graph(...) raised nothing
VisGraphs ==
    LET VisMatrices == UNION {[1..1 -> [1..c -> 0..VisVal]] : c \in 1..VisCells}
        Built == UNION {{BuildGraph(m, s, g) : s \in Cells(m), g \in Cells(m)} :
                          m \in VisMatrices}
    IN  {b \in Built : b.err = "none"}

\* Grid(graph, font): each Algorithm keeps the path its strategy returned
Grid(g) ==
    [algorithms |-> [k \in 1..Len(AlgorithmOrder) |-> RunStrategy(AlgorithmOrder[k], g).result]]

\* the grids of the graph lists shown
VisGrids == {Grid(g) : g \in VisGraphs}

\* list[i] of Python is defined for -len(list) <= i < len(list)
ValidIndex(list, i) == -Len(list) <= i /\ i < Len(list)

PyIndex(list, i) == IF i >= 0 THEN list[i + 1] ELSE list[Len(list) + i + 1]

\* PathfindingVisualizer.__init__ on the grids of the graphs handed to it
NewVisualizer(grids) ==
    [grids |-> grids,
     current_graph_index |-> 0,
     current_algorithm_index |-> 0,
     animation_in_progress |-> FALSE,
     animation_step |-> 0,
     show_path |-> FALSE,
     enabled |-> [run_algorithm |-> TRUE,
                  previous_algorithm |-> FALSE,
                  next_algorithm |-> Len(grids) > 1,
                  previous_graph |-> FALSE,
                  next_graph |-> Len(grids) > 1],
     cursor |-> "arrow",
     err |-> "none"]

\* the properties _current_grid, _current_algorithm and _path can be evaluated
Selectable(v) ==
    /\ ValidIndex(v.grids, v.current_graph_index)
    /\ ValidIndex(PyIndex(v.grids, v.current_graph_index).algorithms,
                  v.current_algorithm_index)

\* _current_grid
CurrentGrid(v) == PyIndex(v.grids, v.current_graph_index)

\* _path: the path of _current_algorithm
Path(v) == PyIndex(CurrentGrid(v).algorithms, v.current_algorithm_index)

\* _set_algorithm leaving the next-algorithm button enabled at the last algorithm
\* (<= where the source has <)
SetAlgorithmNextAlways(v, delta) ==
    LET v1 == [v EXCEPT !.current_algorithm_index = @ + delta,
                        !.show_path = FALSE,
                        !.animation_in_progress = FALSE,
                        !.animation_step = 0]
    IN  IF ~Selectable(v1) THEN [v1 EXCEPT !.err = "IndexError"]
        ELSE [v1 EXCEPT
                 !.enabled.run_algorithm = Path(v1) # None,
                 !.enabled.previous_algorithm = v1.current_algorithm_index > 0,
                 !.enabled.next_algorithm =
                     v1.current_algorithm_index <= Len(CurrentGrid(v1).algorithms) - 1]

\* _set_algorithm(delta); self._path raises IndexError for an index out of range
SetAlgorithm(v, delta) ==
    LET v1 == [v EXCEPT !.current_algorithm_index = @ + delta,
                        !.show_path = FALSE,
                        !.animation_in_progress = FALSE,
                        !.animation_step = 0]
    IN  IF ~Selectable(v1) THEN [v1 EXCEPT !.err = "IndexError"]
        ELSE [v1 EXCEPT
                 !.enabled.run_algorithm = Path(v1) # None,
                 !.enabled.previous_algorithm = v1.current_algorithm_index > 0,
                 !.enabled.next_algorithm =
                     v1.current_algorithm_index < Len(CurrentGrid(v1).algorithms) - 1]

\* _set_graph(delta)
SetGraph(v, delta) ==
    LET v1 == [v EXCEPT !.current_graph_index = @ + delta]
        v2 == [v1 EXCEPT
                  !.enabled.previous_graph = v1.current_graph_index > 0,
                  !.enabled.next_graph = v1.current_graph_index < Len(v1.grids) - 1]
    IN  SetAlgorithm(v2, 0)

\* _start_animation
StartAnimation(v) ==
    IF v.animation_in_progress \/ Path(v) = None THEN v
    ELSE [v EXCEPT !.show_path = TRUE, !.animation_in_progress = TRUE,
                   !.animation_step = 0]

\* after a navigation button acted: the arrow cursor when the button went disabled
CursorAfter(v, button) ==
    IF v.err = "none" /\ ~v.enabled[button] THEN [v EXCEPT !.cursor = "arrow"] ELSE v

\* _handle_events, case MOUSEBUTTONDOWN: hit is the set of buttons whose rect
\* contains the mouse position; the first one of the chain that is hit and enabled acts
MouseButtonDown(v, hit) ==
    IF "run_algorithm" \in hit /\ v.enabled.run_algorithm THEN StartAnimation(v)
    ELSE IF "previous_algorithm" \in hit /\ v.enabled.previous_algorithm
    THEN CursorAfter(SetAlgorithm(v, -1), "previous_algorithm")
    ELSE IF "next_algorithm" \in hit /\ v.enabled.next_algorithm
    THEN CursorAfter(SetAlgorithm(v, 1), "next_algorithm")
    ELSE IF "previous_graph" \in hit /\ v.enabled.previous_graph
    THEN CursorAfter(SetGraph(v, -1), "previous_graph")
    ELSE IF "next_graph" \in hit /\ v.enabled.next_graph
    THEN CursorAfter(SetGraph(v, 1), "next_graph")
    ELSE v

\* _handle_events, case MOUSEMOTION: the hand cursor over an enabled button
MouseMotion(v, hit) ==
    [v EXCEPT !.cursor = IF \E b \in hit : v.enabled[b] THEN "hand" ELSE "arrow"]

\* _draw_path: the argument it hands to draw_arrows (range_end - 1)
ArrowsUntil(v) ==
    LET range_end == IF v.animation_in_progress /\ v.animation_step < Len(Path(v))
                     THEN v.animation_step + 1
                     ELSE Len(Path(v))
    IN  range_end - 1

\* _update_animation stopping one step late (> where the source has >=)
UpdateAnimationLate(v, elapsed) ==
    IF ~v.animation_in_progress \/ Path(v) = None THEN v
    ELSE IF v.animation_step > Len(Path(v)) THEN [v EXCEPT !.animation_in_progress = FALSE]
    ELSE IF elapsed THEN [v EXCEPT !.animation_step = @ + 1]
    ELSE v

\* _update_animation; elapsed says whether time() is more than ANIMATION_SPEED
\* after _last_animation_update
UpdateAnimation(v, elapsed) ==
    IF ~v.animation_in_progress \/ Path(v) = None THEN v
    ELSE IF v.animation_step >= Len(Path(v)) THEN [v EXCEPT !.animation_in_progress = FALSE]
    ELSE IF elapsed THEN [v EXCEPT !.animation_step = @ + 1]
    ELSE v

\* the graph and search variables, which the window never touches
searchVars == <<matrix, start, goal, pc, graph, alg, frontier, pq, visited,
                parents, scores, result, raised, pops, pushed, addr, run, first>>

\* main.py: PathfindingVisualizer(graphs) for a non-empty list of built graphs,
\* then run() enters its first frame
InitVisualizer ==
    /\ matrix = <<>> /\ start = <<0, 0>> /\ goal = <<0, 0>>
    /\ NoSearch
    /\ visualizer \in {NewVisualizer(grids) :
                          grids \in UNION {[1..n -> VisGrids] : n \in 1..MaxGraphs}}
    /\ phase = "events"
    /\ drawn = -1

\* the buttons a mouse position can be inside of: none, one, or overlapping ones
Hits == SUBSET Buttons

\* _handle_events takes one MOUSEBUTTONDOWN event from pygame.event.get()
Click ==
    /\ phase = "events" /\ visualizer.err = "none"
    /\ \E hit \in Hits : visualizer' = MouseButtonDown(visualizer, hit)
    /\ UNCHANGED <<phase, drawn, searchVars>>

\* _handle_events takes one MOUSEMOTION event
Motion ==
    /\ phase = "events" /\ visualizer.err = "none"
    /\ \E hit \in Hits : visualizer' = MouseMotion(visualizer, hit)
    /\ UNCHANGED <<phase, drawn, searchVars>>

\* _handle_events takes a QUIT event: pygame.quit() and sys.exit()
Quit ==
    /\ phase = "events" /\ visualizer.err = "none"
    /\ phase' = "quit"
    /\ UNCHANGED <<visualizer, drawn, searchVars>>

\* the event list is used up: run() goes on to draw the frame
EventsDone ==
    /\ phase = "events" /\ visualizer.err = "none"
    /\ phase' = "draw"
    /\ UNCHANGED <<visualizer, drawn, searchVars>>

\* run(): _draw_path; draw_arrows is called only when _show_path is set, and
\* len(None) raises TypeError
DrawPath ==
    /\ phase = "draw"
    /\ phase' = "update"
    /\ IF ~visualizer.show_path THEN UNCHANGED <<visualizer, drawn>>
       ELSE IF Path(visualizer) = None
       THEN visualizer' = [visualizer EXCEPT !.err = "TypeError"] /\ UNCHANGED drawn
       ELSE drawn' = ArrowsUntil(visualizer) /\ UNCHANGED visualizer
    /\ UNCHANGED searchVars

\* run(): _update_animation, then the next frame
Update ==
    /\ phase = "update" /\ visualizer.err = "none"
    /\ phase' = "events"
    /\ \E elapsed \in BOOLEAN : visualizer' = UpdateAnimation(visualizer, elapsed)
    /\ UNCHANGED <<drawn, searchVars>>

NextVisualizer ==
    \/ Click
    \/ Motion
    \/ Quit
    \/ EventsDone
    \/ DrawPath
    \/ Update

SpecVisualizer == InitVisualizer /\ [][NextVisualizer]_vars

---------------------------------------------------------------------------
(* What the claims speak of: paths of the built graph and their costs *)

HasEdge(g, u, v) == \E k \in 1..Len(g.edges[u]) : g.edges[u][k].dest = v

\* the edge from u to v (a node has at most one edge to a given node)
EdgeTo(g, u, v) == g.edges[u][CHOOSE k \in 1..Len(g.edges[u]) : g.edges[u][k].dest = v]

\* the cost of an edge under a metric: its length, 1 per jump, or the value entered
EdgeCost(kind, g, e) ==
    IF kind = "length" THEN e.length
    ELSE IF kind = "jumps" THEN 1
    ELSE g.value[e.dest]

\* the summed cost of the edges along a path of existing edges
RECURSIVE PathCost(_, _, _)
PathCost(kind, g, path) ==
    IF Len(path) <= 1 THEN 0
    ELSE EdgeCost(kind, g, EdgeTo(g, path[1], path[2])) + PathCost(kind, g, Tail(path))

\* one round of relaxing every edge, d the cheapest costs found so far
\* (@@ <<>> adds nothing: it makes the result a table instead of a rule)
RelaxAll(kind, g, d) ==
    [v \in Range(g.nodes) |->
        Min({d[v]} \cup {d[u] + EdgeCost(kind, g, EdgeTo(g, u, v)) :
                           u \in {w \in Range(g.nodes) : d[w] < Inf /\ HasEdge(g, w, v)}})]
    @@ <<>>

RECURSIVE RelaxRounds(_, _, _, _)
RelaxRounds(kind, g, d, n) ==
    IF n = 0 THEN d ELSE RelaxRounds(kind, g, RelaxAll(kind, g, d), n - 1)

\* the minimum cost over all paths from src to each node, Inf where there is none
MinCost(kind, g, src) ==
    RelaxRounds(kind, g, [v \in Range(g.nodes) |-> IF v = src THEN 0 ELSE Inf],
                Len(g.nodes))

\* the goal can be reached from the start along the built edges
Reachable(g) == MinCost("jumps", g, g.root)[goal] < Inf

Returned(a) == pc = "done" /\ alg = a

ReturnedPath(a) == pc = "done" /\ alg = a /\ result # None

---------------------------------------------------------------------------
(* Claims *)

\* C1: a path returned by any of the seven strategies starts at start, ends at
\* goal, and every consecutive pair of it is joined by an edge of the built graph.
C1_PathValid ==
    (pc = "done" /\ result # None /\ WellFormed(matrix, start, goal)) =>
        /\ result[1] = start
        /\ result[Len(result)] = goal
        /\ \A k \in 1..(Len(result) - 1) : HasEdge(graph, result[k], result[k + 1])

\* a_star returned a path of three jumps
C1_Witness == ReturnedPath("a_star") /\ Len(result) = 4

\* C2: a path returned by bfs has the minimum number of edges among all
\* start-to-goal paths of the built graph.
C2_BfsMinJumps ==
    ReturnedPath("bfs") => Len(result) - 1 = MinCost("jumps", graph, graph.root)[goal]

\* bfs returned a path of two jumps although a second, longer route exists
C2_Witness ==
    /\ ReturnedPath("bfs") /\ Len(result) = 3
    /\ \E n \in Range(graph.nodes) :
          /\ n \notin Range(result)
          /\ HasEdge(graph, start, n)
          /\ MinCost("jumps", graph, n)[goal] < Inf

\* C3: a path returned by ucs_by_distance or by dijkstra has the minimum summed
\* edge length among all start-to-goal paths, so both return the same cost.
C3_MinLength ==
    (ReturnedPath("ucs_by_distance") \/ ReturnedPath("dijkstra")) =>
        /\ PathCost("length", graph, result) = MinCost("length", graph, graph.root)[goal]
        /\ LET u == RunStrategy("ucs_by_distance", graph).result
               d == RunStrategy("dijkstra", graph).result
           IN  (u # None /\ d # None) =>
                   PathCost("length", graph, u) = PathCost("length", graph, d)

\* dijkstra returned a path where the route with the fewest jumps is longer
C3_Witness ==
    /\ ReturnedPath("dijkstra")
    /\ PathCost("length", graph, result)
         < PathCost("length", graph, RunStrategy("ucs_by_jumps", graph).result)

\* every node's heuristic is at most the true minimum summed edge length to the goal
Admissible(g) ==
    \A n \in Range(g.nodes) : g.heuristic[n] <= MinCost("length", g, n)[goal]

\* C4: on a graph whose heuristic never exceeds the true remaining length, a_star
\* returns a path exactly when dijkstra does, and the two paths have the same
\* summed edge length.
C4_AStarAsDijkstra ==
    (alg = "a_star" /\ pc \in {"done", "raised"} /\ Admissible(graph)) =>
        LET d == RunStrategy("dijkstra", graph)
        IN  /\ pc = "done" /\ d.pc = "done"
            /\ (result = None) <=> (d.result = None)
            /\ result # None =>
                 PathCost("length", graph, result) = PathCost("length", graph, d.result)

\* a_star returned a path of at least two jumps that is shorter than the route
\* dfs takes, on a graph whose heuristic is admissible and not zero at the start
C4_Witness ==
    /\ ReturnedPath("a_star") /\ Admissible(graph)
    /\ graph.heuristic[start] > 0
    /\ Len(result) >= 3
    /\ PathCost("length", graph, result)
         < PathCost("length", graph, RunStrategy("dfs", graph).result)

\* C5: when the goal cannot be reached from the start along the built edges, each
\* of the seven strategies returns None as an ordinary value and raises nothing.
C5_NoPathIsNone ==
    (pc \in {"done", "raised"} /\ ~Reachable(graph)) => (pc = "done" /\ result = None)

\* dijkstra popped a goal whose distance was still inf although edges lead into it
C5_Witness ==
    /\ Returned("dijkstra") /\ ~Reachable(graph)
    /\ pq # <<>>
    /\ \E n \in Range(graph.nodes) : HasEdge(graph, n, goal)

\* C6: when start and goal are the same cell every strategy returns the
\* single-node path [start] (whose cost is 0).
C6_SameCellPath ==
    (pc \in {"done", "raised"} /\ start = goal) => (pc = "done" /\ result = <<start>>)

\* C7: for the 3x3 matrix of all 1's with start (0,0) and goal (2,2) the graph is
\* built, bfs and ucs_by_jumps return 5 nodes, dijkstra and ucs_by_distance return
\* a path of summed edge length 4.
C7_ScenarioB ==
    (matrix = ScenarioB /\ start = <<0, 0>> /\ goal = <<2, 2>> /\ pc # "input") =>
        /\ pc # "failed"
        /\ (Returned("bfs") \/ Returned("ucs_by_jumps")) =>
              (result # None /\ Len(result) = 5)
        /\ (Returned("dijkstra") \/ Returned("ucs_by_distance")) =>
              (result # None /\ PathCost("length", graph, result) = 4)

\* the cells a jump of the length stored at pos lands on, as up, down, left, right,
\* those outside the rows x cols rectangle left out
JumpTargets(m, pos) ==
    LET L == At(m, pos)
        inside(p) == /\ 0 <= p[1] /\ p[1] < Len(m)
                     /\ 0 <= p[2] /\ p[2] < Len(m[1])
    IN  SelectSeq(<< <<pos[1] - L, pos[2]>>, <<pos[1] + L, pos[2]>>,
                     <<pos[1], pos[2] - L>>, <<pos[1], pos[2] + L>> >>, inside)

\* C9: the graph built from a rectangular matrix has exactly one node per cell; a
\* cell of jump length 0 has no edge; a cell of jump length L > 0 has one edge of
\* length L to each in-matrix cell L steps up, down, left, right, in that order,
\* and to no other cell.
C9_GraphShape ==
    (pc \notin {"input", "failed"} /\ IsRectangular(matrix)) =>
        /\ Range(graph.nodes) = Cells(matrix)
        /\ Len(graph.nodes) = Cardinality(Cells(matrix))
        /\ \A p \in Cells(matrix) :
              /\ graph.value[p] = At(matrix, p)
              /\ At(matrix, p) = 0 => graph.edges[p] = <<>>
              /\ At(matrix, p) > 0 =>
                    graph.edges[p] = [k \in 1..Len(JumpTargets(matrix, p)) |->
                                         [dest |-> JumpTargets(matrix, p)[k],
                                          length |-> At(matrix, p)]]
              /\ \A k \in 1..Len(graph.edges[p]) : graph.edges[p][k].dest \in Cells(matrix)

\* a built graph with a dead-end cell and a cell that jumps both down and right
C9_Witness ==
    /\ pc = "built"
    /\ \E p \in Cells(matrix) : At(matrix, p) = 0
    /\ \E p \in Cells(matrix) :
          /\ Len(graph.edges[p]) = 2
          /\ graph.edges[p][1].dest = <<p[1] + 1, p[2]>>
          /\ graph.edges[p][2].dest = <<p[1], p[2] + 1>>

\* C8: building a graph from an empty matrix, from rows of unequal length or with
\* start or goal outside the matrix fails with a ConfigurationError and produces
\* no Graph.
C8_MalformedRejected ==
    (pc # "input" /\ ~WellFormed(matrix, start, goal)) =>
        (pc = "failed" /\ graph.err = "ConfigurationError")

\* C10: a strategy called a second time for the same matrix, start and goal, on
\* the same graph or on a second graph built from them, returns what the first
\* call returned: the same sequence of positions, or None both times.
C10_Deterministic ==
    (run = 2 /\ pc \in {"done", "raised"}) => (pc = "done" /\ result = first)

\* ucs_by_jumps returned a two-jump path a second time, on nodes at other
\* addresses, where a second two-jump path exists (queue entries tied on cost)
C10_Witness ==
    /\ run = 2 /\ ReturnedPath("ucs_by_jumps")
    /\ addr # CreationOrder(graph.nodes)
    /\ Len(result) = 3
    /\ \E n \in Range(graph.nodes) :
          n \notin Range(result) /\ HasEdge(graph, start, n) /\ HasEdge(graph, n, goal)

\* C11: running a strategy leaves the Graph as Graph(matrix, start, goal) built
\* it (node table, values, heuristics, is_goal, edge lists, root), so a strategy
\* called after others returns what it returns on a freshly built graph.
C11_GraphUnchanged ==
    (pc \in {"built", "loop", "done", "raised"}) =>
        /\ graph = BuildGraph(matrix, start, goal)
        /\ pc = "done" =>
              result = RunStrategy(alg, BuildGraph(matrix, start, goal)).result

\* bfs returned a path of two jumps or more on a graph already searched by dfs
\* or another strategy
C11_Witness ==
    run = 2 /\ ReturnedPath("bfs") /\ Len(result) >= 3 /\ graph.edges[start] # <<>>

\* C12: ucs_by_jumps returns a path exactly when the goal can be reached from the
\* start, and its path has the minimum number of jumps, which is the number of
\* jumps of the path bfs returns on the same graph.
C12_UcsByJumpsAsBfs ==
    Returned("ucs_by_jumps") =>
        LET b == RunStrategy("bfs", graph).result
        IN  /\ (result # None) <=> Reachable(graph)
            /\ result # None =>
                  /\ Len(result) - 1 = MinCost("jumps", graph, graph.root)[goal]
                  /\ b # None
                  /\ Len(b) = Len(result)

\* following the parent links from n ends at None within k steps
RECURSIVE ChainEnds(_, _, _)
ChainEnds(par, n, k) ==
    IF n = None THEN TRUE
    ELSE IF k = 0 \/ n \notin DOMAIN par THEN FALSE
    ELSE ChainEnds(par, par[n], k - 1)

\* the parent links contain no cycle: every chain ends at None
ParentsAcyclic ==
    \A n \in DOMAIN parents : ChainEnds(parents, n, Cardinality(DOMAIN parents))

\* C13: every strategy that is called terminates: its loop stops and the strategy
\* returns (the goal was popped or the frontier ran empty), and the parent links
\* _get_path walks never contain a cycle, so its walk ends at None.
C13_Terminates ==
    /\ [](pc \in {"loop", "done", "raised"} => ParentsAcyclic)
    /\ (pc = "loop") ~> (pc = "done")

\* dfs returned after it went round a cycle of the graph: it popped a node it had
\* already expanded, and found no way to the goal
C13_Witness ==
    /\ Returned("dfs") /\ result = None
    /\ \E n \in visited : n # start /\ HasEdge(graph, start, n) /\ HasEdge(graph, n, start)

\* C14: when start and goal are different cells and the goal can be reached from
\* the start along the built edges, each of the seven strategies returns a path.
C14_FindsPath ==
    (pc \in {"done", "raised"} /\ start # goal /\ Reachable(graph)) =>
        (pc = "done" /\ result # None)

\* ucs_by_value returned a path of two jumps or more to a goal other than the start
C14_Witness ==
    ReturnedPath("ucs_by_value") /\ start # goal /\ Len(result) >= 3

\* dijkstra is about to pop a stale entry: its key exceeds the distance recorded
\* for its node, or its node was popped before
DijkstraStale ==
    /\ alg = "dijkstra" /\ pc = "loop" /\ pq # <<>>
    /\ \/ pq[1].key > scores[pq[1].node]
       \/ pq[1].node \in Range(pops)

\* C15: in dijkstra, popping a stale entry changes no entry of distances or
\* parents; the distance and parent recorded for a node that has been popped never
\* change again; and that distance is the minimum summed edge length from the root.
C15_StalePopsChangeNothing ==
    /\ [][DijkstraStale => (scores' = scores /\ parents' = parents)]_vars
    /\ [][(alg = "dijkstra" /\ pc = "loop") =>
            \A n \in Range(pops) : scores'[n] = scores[n] /\ parents'[n] = parents[n]]_vars
    /\ []((alg = "dijkstra" /\ pc \in {"loop", "done"}) =>
            \A n \in Range(pops) : scores[n] = MinCost("length", graph, graph.root)[n])

\* dijkstra has popped a node x a second time and goes on: the first node with an
\* edge to x gave it a distance that a node popped later improved, so the second
\* pop of x took the entry of finite key that the improvement had made stale
C15_Witness ==
    /\ alg = "dijkstra" /\ pc = "loop"
    /\ \E a \in 1..Len(pops) : \E x \in Range(graph.nodes) :
          /\ HasEdge(graph, pops[a], x)
          /\ \A b \in 1..(a - 1) : ~HasEdge(graph, pops[b], x)
          /\ scores[pops[a]] + EdgeTo(graph, pops[a], x).length > scores[x]
          /\ Cardinality({k \in 1..Len(pops) : pops[k] = x}) >= 2

\* the nodes of a pop history that are not the goal, each at its first pop: for
\* dfs, the order in which it marked the nodes visited
RECURSIVE FirstPops(_, _, _)
FirstPops(g, seq, k) ==
    IF k > Len(seq) THEN <<>>
    ELSE IF g.is_goal[seq[k]] \/ \E j \in 1..(k - 1) : seq[j] = seq[k]
         THEN FirstPops(g, seq, k + 1)
         ELSE <<seq[k]>> \o FirstPops(g, seq, k + 1)

\* a recursive depth-first traversal: visit(node) stops everything at the goal,
\* returns at a node already visited, else marks the node and visits the
\* destinations of its edges in edge-list order
RECURSIVE RecVisit(_, _, _)
RECURSIVE RecEdges(_, _, _, _)
RecVisit(g, node, st) ==
    IF st.found \/ node \in Range(st.order) THEN st
    ELSE IF g.is_goal[node] THEN [st EXCEPT !.found = TRUE]
    ELSE RecEdges(g, node, [st EXCEPT !.order = Append(@, node)], 1)

RecEdges(g, node, st, k) ==
    IF k > Len(g.edges[node]) THEN st
    ELSE RecEdges(g, node, RecVisit(g, g.edges[node][k].dest, st), k + 1)

\* the order in which the recursive traversal from the root marks the nodes
RecOrder(g) == RecVisit(g, g.root, [order |-> <<>>, found |-> FALSE]).order

IsPrefix(p, q) == Len(p) <= Len(q) /\ \A k \in 1..Len(p) : p[k] = q[k]

\* C16: dfs marks the nodes visited in the order of a recursive depth-first
\* traversal from the root that follows each node's edges in edge-list order and
\* stops at the goal; it marks each node at most once; and the parent recorded for
\* a node is written once, by the first expanded node that has an edge to it while
\* it is not yet visited, and is never overwritten.
C16_DfsOrder ==
    /\ []((alg = "dfs" /\ pc \in {"loop", "done"}) =>
            LET order == FirstPops(graph, pops, 1)
            IN  /\ IsPrefix(order, RecOrder(graph))
                /\ pc = "done" => order = RecOrder(graph)
                /\ Range(order) = visited
                /\ \A n \in DOMAIN parents :
                      IF n = graph.root THEN parents[n] = None
                      ELSE \E k \in 1..Len(order) :
                              /\ parents[n] = order[k]
                              /\ HasEdge(graph, order[k], n)
                              /\ n \notin Range(SubSeq(order, 1, k))
                              /\ \A j \in 1..(k - 1) :
                                    HasEdge(graph, order[j], n) =>
                                        n \in Range(SubSeq(order, 1, j)))
    /\ [][(alg = "dfs" /\ pc = "loop") =>
            /\ Cardinality(visited') <= Cardinality(visited) + 1
            /\ (frontier # <<>> /\ NextNode \in visited) =>
                  (visited' = visited /\ parents' = parents)
            /\ \A n \in DOMAIN parents :
                  n \in DOMAIN parents' /\ parents'[n] = parents[n]]_vars

\* dfs returned after it had popped a node a second time; two nodes it expanded
\* before that node have an edge to it, and the parent recorded for it is the
\* first of the two, not the one the traversal reached it from
C16_Witness ==
    /\ Returned("dfs")
    /\ \E i, j \in 1..Len(pops) : i < j /\ pops[i] = pops[j]
    /\ LET order == FirstPops(graph, pops, 1)
       IN  \E i, j, k \in 1..Len(order) :
              /\ i < j /\ j < k
              /\ HasEdge(graph, order[i], order[k])
              /\ HasEdge(graph, order[j], order[k])
              /\ parents[order[k]] = order[i]

\* the number of jumps of a shortest path from the root to n
Hops(n) == MinCost("jumps", graph, graph.root)[n]

\* C17: in bfs every node is enqueued at most once; the nodes leave the queue in
\* non-decreasing order of their number of jumps from the root; and the parent of
\* a node is written once, when the node is discovered, as the node being expanded,
\* which is one jump nearer to the root, and is never overwritten.
C17_BfsOrder ==
    /\ []((alg = "bfs" /\ pc \in {"loop", "done"}) =>
            LET enqueued == pops \o frontier
            IN  /\ \A i, j \in 1..Len(enqueued) : i < j =>
                      /\ enqueued[i] # enqueued[j]
                      /\ Hops(enqueued[i]) <= Hops(enqueued[j])
                /\ DOMAIN parents = Range(enqueued)
                /\ \A n \in DOMAIN parents :
                      IF n = graph.root THEN parents[n] = None
                      ELSE /\ parents[n] \in Range(pops)
                           /\ HasEdge(graph, parents[n], n)
                           /\ Hops(parents[n]) = Hops(n) - 1)
    /\ [][(alg = "bfs" /\ pc = "loop") =>
            \A n \in DOMAIN parents :
                n \in DOMAIN parents' /\ parents'[n] = parents[n]]_vars

\* bfs returned after it had expanded a node with an edge to a node that another
\* node had discovered before, and had dequeued a node two jumps from the root
C17_Witness ==
    /\ Returned("bfs")
    /\ \E u \in Range(pops) : \E n \in DOMAIN parents :
          n # graph.root /\ HasEdge(graph, u, n) /\ parents[n] # u
    /\ \E n \in Range(pops) : Hops(n) >= 2

\* the position of a queue entry in the order of the puts
PutIndex(e) == CHOOSE i \in 1..Len(pushed) : pushed[i] = e

\* C18: in _ucs, dijkstra and a_star, of the queue entries whose cost key is equal
\* the one put earlier is popped earlier: the entry the next pq.get() returns was
\* put before every other entry of the same key that is in the queue.
C18_TiesInInsertionOrder ==
    (alg \in Strategies \ ListStrategies /\ pc = "loop" /\ pq # <<>>) =>
        \A k \in 2..Len(pq) :
            pq[k].key = pq[1].key => PutIndex(pq[1]) < PutIndex(pq[k])

\* the number of edges of the graph
RECURSIVE EdgeCount(_, _)
EdgeCount(g, k) ==
    IF k > Len(g.nodes) THEN 0 ELSE Len(g.edges[g.nodes[k]]) + EdgeCount(g, k + 1)

\* C19: in _ucs a node is expanded at most once: the iteration that pops an entry
\* whose node is already in visited puts nothing into the queue, and the number
\* of pops never exceeds the number of edges plus one.
C19_UcsExpandsOnce ==
    /\ [][(alg \in UcsStrategies /\ pc = "loop" /\ pq # <<>> /\ pq[1].node \in visited) =>
            pushed' = pushed]_vars
    /\ []((alg \in UcsStrategies /\ pc \in {"loop", "done"}) =>
            Len(pops) <= EdgeCount(graph, 1) + 1)

\* the graph was built from a rectangular matrix whose largest cell is at least 2
BuiltWithJumps ==
    /\ pc \notin {"input", "failed"}
    /\ IsRectangular(matrix)
    /\ MaxJump(matrix) >= 2

\* C20: on a rectangular matrix whose largest cell is at least 2, the heuristic of
\* every node from which the goal can be reached is non-negative and at most the
\* minimum summed edge length from the node to the goal, every edge u -> v of
\* length L has heuristic(u) <= L + heuristic(v), and the path a_star returns has
\* the minimum summed edge length (it returns one whenever the goal can be reached
\* from a different start).
C20_HeuristicAdmissible ==
    BuiltWithJumps =>
        /\ \A n \in Range(graph.nodes) :
              MinCost("length", graph, n)[goal] < Inf =>
                  /\ graph.heuristic[n] >= 0
                  /\ graph.heuristic[n] <= MinCost("length", graph, n)[goal]
        /\ \A u \in Range(graph.nodes) : \A k \in 1..Len(graph.edges[u]) :
              graph.heuristic[u] <=
                  graph.edges[u][k].length + graph.heuristic[graph.edges[u][k].dest]
        /\ (alg = "a_star" /\ pc \in {"done", "raised"}) =>
              /\ pc = "done"
              /\ (Reachable(graph) /\ start # goal) => result # None
              /\ result # None =>
                    PathCost("length", graph, result)
                        = MinCost("length", graph, graph.root)[goal]

\* a_star returned a path of at least two jumps, shorter than the route dfs takes,
\* on a matrix whose largest cell is 3: the division by max_jump - 1 = 2 rounds the
\* start's estimate down to a positive value below the true remaining length
C20_Witness ==
    /\ BuiltWithJumps /\ MaxJump(matrix) = 3
    /\ ReturnedPath("a_star") /\ Len(result) >= 3
    /\ graph.heuristic[start] > 0
    /\ graph.heuristic[start] < MinCost("length", graph, start)[goal]
    /\ PathCost("length", graph, result)
         < PathCost("length", graph, RunStrategy("dfs", graph).result)

\* |row - goal.row| + |col - goal.col|
Manhattan(pos, g) == Abs(pos[1] - g[1]) + Abs(pos[2] - g[2])

\* C21: for every matrix, maximum cell value 1 and 0 included, the graph is built
\* and every node's heuristic is defined: it is the Manhattan distance to the goal
\* divided (rounding down) by the largest cell value minus 1, and 0 at the goal.
C21_HeuristicDefined ==
    pc # "input" =>
        /\ pc # "failed"
        /\ MaxJump(matrix) - 1 # 0
        /\ \A n \in Range(graph.nodes) :
              /\ graph.heuristic[n] = FloorDiv(Manhattan(n, goal), MaxJump(matrix) - 1)
              /\ graph.is_goal[n] => graph.heuristic[n] = 0

\* C22: when ucs_by_value returns a path, the summed value of the nodes entered
\* along it (every node but the first) is the minimum of that sum over all
\* start-to-goal paths of the built graph, and the cost key of the goal entry the
\* last pq.get() returned equals that sum.
C22_UcsByValueMin ==
    [][(alg = "ucs_by_value" /\ pc = "loop" /\ pc' = "done" /\ result' # None) =>
          /\ PathCost("value", graph, result') = MinCost("value", graph, graph.root)[goal]
          /\ pq[1].key = PathCost("value", graph, result')]_vars

\* ucs_by_value returned a path of positive summed value that is cheaper than the
\* route with the fewest jumps
C22_Witness ==
    /\ ReturnedPath("ucs_by_value") /\ Len(result) >= 3
    /\ PathCost("value", graph, result) > 0
    /\ PathCost("value", graph, result)
         < PathCost("value", graph, RunStrategy("ucs_by_jumps", graph).result)

\* C23: with a non-empty list of graphs, after any sequence of mouse clicks
\* _current_graph_index stays within 0..len(graphs)-1 and _current_algorithm_index
\* within 0..6: each navigation button is enabled exactly when one more step in its
\* direction stays in range, and a click changes an index only through an enabled
\* button.
C23_IndicesInRange ==
    phase # "none" =>
        /\ visualizer.err = "none"
        /\ visualizer.current_graph_index \in 0..(Len(visualizer.grids) - 1)
        /\ visualizer.current_algorithm_index \in 0..6
        /\ visualizer.enabled.previous_algorithm =>
              visualizer.current_algorithm_index - 1 >= 0
        /\ visualizer.enabled.next_algorithm =>
              visualizer.current_algorithm_index + 1 <= 6
        /\ visualizer.enabled.previous_graph <=>
              visualizer.current_graph_index - 1 >= 0
        /\ visualizer.enabled.next_graph <=>
              visualizer.current_graph_index + 1 <= Len(visualizer.grids) - 1

\* clicks went to the last algorithm of the middle one of three graphs and the
\* last graph was visited: both algorithm buttons and both graph buttons acted
C23_Witness ==
    /\ phase = "events"
    /\ Len(visualizer.grids) = 3
    /\ visualizer.current_graph_index = 1
    /\ visualizer.current_algorithm_index = 6
    /\ ~visualizer.enabled.next_algorithm
    /\ visualizer.enabled.previous_graph /\ visualizer.enabled.next_graph

\* the current selection: (graph index, algorithm index)
Selection(v) == <<v.current_graph_index, v.current_algorithm_index>>

\* C24: whenever _show_path or _animation_in_progress is set, the selected
\* algorithm has a path, 0 <= _animation_step <= len(path), and the _draw_path of
\* the frame asked draw_arrows for at most len(path) - 1 arrows; every click that
\* switches the algorithm or the graph leaves _show_path and
\* _animation_in_progress False and _animation_step 0.
C24_AnimationInBounds ==
    /\ []((phase # "none" /\ (visualizer.show_path \/ visualizer.animation_in_progress)) =>
            /\ visualizer.err = "none"
            /\ Path(visualizer) # None
            /\ 0 <= visualizer.animation_step
            /\ visualizer.animation_step <= Len(Path(visualizer))
            /\ phase = "update" =>
                  (0 <= drawn /\ drawn <= Len(Path(visualizer)) - 1))
    /\ [][(phase # "none" /\ Selection(visualizer') # Selection(visualizer)) =>
            /\ ~visualizer'.show_path
            /\ ~visualizer'.animation_in_progress
            /\ visualizer'.animation_step = 0]_vars

\* the animation of a two-node path reached its last step: the frame drew the
\* whole path with its one arrow, on a graph reached by a click on "Next graph"
C24_Witness ==
    /\ phase = "update"
    /\ visualizer.show_path /\ visualizer.animation_in_progress
    /\ visualizer.current_graph_index > 0
    /\ Len(Path(visualizer)) = 2
    /\ visualizer.animation_step = 2
    /\ drawn = 1

\* the states of the window that clicks on enabled buttons lead to from the states S
RECURSIVE ClickClosure(_)
ClickClosure(S) ==
    LET T == S \cup UNION {{MouseButtonDown(v, {b}) : b \in {c \in Buttons : v.enabled[c]}} :
                             v \in S}
    IN  IF T = S THEN S ELSE ClickClosure(T)

\* the selections some finite sequence of clicks on enabled buttons makes current,
\* starting from the window as __init__ leaves it
ReachableSelections(grids) ==
    {Selection(v) : v \in ClickClosure({NewVisualizer(grids)})}

\* C25: for every non-empty list of graphs, a single graph included, every pair
\* (graph index, algorithm index in 0..6) can be made the current selection by a
\* finite sequence of clicks on enabled buttons from the initial state.
C25_EverySelectionReachable ==
    (phase = "events" /\ visualizer = NewVisualizer(visualizer.grids)) =>
        \A g \in 0..(Len(visualizer.grids) - 1) : \A a \in 0..6 :
            <<g, a>> \in ReachableSelections(visualizer.grids)

=============================================================================
